---- MODULE Spec2Model ----
(***************************************************************************)
(* A model of vw::stereo::CorrelatorView (src/src/vw/Stereo/               *)
(* CorrelatorView.h): construction, the configuration setters, and the     *)
(* tile rasterization path rasterize() -> prerasterize(), run by several   *)
(* threads against one view; of ImageFormat, ImageBuffer and the optional  *)
(* calls of image resources (src/src/vw/Image/ImageResource.h); and of     *)
(* levenberg_marquardt() (src/unnamed/part_000).                           *)
(*                                                                         *)
(* Pixels are integers, a disparity is a record [h, v, missing], a BBox2i  *)
(* is a record [min, max] of <<x, y>> corners (min inclusive, max          *)
(* exclusive), an ImageView is a record [cols, rows, pix].                 *)
(***************************************************************************)
EXTENDS Integers, FiniteSets, Sequences, TLC

VARIABLES
  phase,        \* "none" | "built" | "failed": the constructor's outcome
  err,          \* the exception the last failing operation threw, or "none"
  left_image,   \* m_left_image
  right_image,  \* m_right_image
  view,         \* the settings members m_search_range .. m_debug_prefix
  mods,         \* number of setter calls made on the view so far
  call,         \* per thread: the locals of its rasterize()/prerasterize()
  format,       \* an ImageFormat: the format of an image resource and of its buffer
  buffer,       \* the ImageBuffer that describes the resource's pixels in memory
  cropped_buffer, \* the ImageBuffer the last cropped() call returned
  ret,          \* the last call on a resource or view outside the tile path, and its outcome
  lm            \* the arguments and locals of a levenberg_marquardt() call

vars == <<phase, err, left_image, right_image, view, mods, call,
          format, buffer, cropped_buffer, ret, lm>>

(***************************************************************************)
(* Bounds of the model.                                                    *)
(***************************************************************************)
\* threads that rasterize tiles of the one view
NumThreads == 2
\* setter calls explored after construction
MaxSets == 3
\* largest padded tile side a modelled rasterization may need
MaxTile == 7
\* largest cols, rows and planes of an ImageFormat
MaxDim == 2
\* parameter vectors the optimizer moves among are numbered 0..MaxParam
MaxParam == 2

Threads == 1..NumThreads

\* the callers that rasterize tiles one after the other, each keeping its last tile
Callers == {1, 2}

(***************************************************************************)
(* vw::BBox2i and vw::Vector2i.                                            *)
(***************************************************************************)
Vector2i(x, y) == <<x, y>>

\* BBox2i(minx, miny, width, height)
BBox2i(minx, miny, w, h) == [min |-> <<minx, miny>>, max |-> <<minx + w, miny + h>>]

\* BBox2i(min, max)
BBoxMinMax(mn, mx) == [min |-> mn, max |-> mx]

width(b) == b.max[1] - b.min[1]
height(b) == b.max[2] - b.min[2]

VAdd(a, b) == <<a[1] + b[1], a[2] + b[2]>>
VSub(a, b) == <<a[1] - b[1], a[2] - b[2]>>

\* a rectangle is empty iff its width or its height is not positive
empty(b) == width(b) <= 0 \/ height(b) <= 0

\* the pixel indices of a cols x rows image
Grid(c, r) == (0..(c - 1)) \X (0..(r - 1))

\* the image pixels a bbox covers
BoxPixels(b) == (b.min[1]..(b.max[1] - 1)) \X (b.min[2]..(b.max[2] - 1))

NoBox == [min |-> <<0, 0>>, max |-> <<0, 0>>]
NoImage == [cols |-> 0, rows |-> 0, pix |-> <<>>]

(***************************************************************************)
(* Source views handed to the constructor.  An image is                    *)
(* [cols, rows, planes, channels, pix]; pixel values are positive so that  *)
(* the zero of ZeroEdgeExtension is told apart from image content.         *)
(***************************************************************************)
MakeImage(c, r, pl, ch, base) ==
  [cols |-> c, rows |-> r, planes |-> pl, channels |-> ch,
   pix |-> [p \in Grid(c, r) |-> base + p[1] + c * p[2]]]

\* the right image is the left image moved one pixel to the left, so that the
\* true disparity of every pixel that has a correspondent is (-1, 0)
ShiftImage(img) ==
  [img EXCEPT !.pix = [p \in Grid(img.cols, img.rows) |->
                         IF p[1] + 1 < img.cols THEN img.pix[<<p[1] + 1, p[2]>>] ELSE 9]]

ImagePairs ==
  { <<MakeImage(3, 2, 1, 1, 1), ShiftImage(MakeImage(3, 2, 1, 1, 1))>>,
    <<MakeImage(3, 2, 1, 1, 1), MakeImage(2, 2, 1, 1, 1)>>,
    <<MakeImage(3, 2, 1, 1, 1), MakeImage(3, 1, 1, 1, 1)>>,
    <<MakeImage(3, 2, 1, 3, 1), MakeImage(3, 2, 1, 3, 1)>>,
    <<MakeImage(3, 2, 1, 1, 1), MakeImage(3, 2, 2, 1, 1)>> }

NoSourceImage == [cols |-> 0, rows |-> 0, planes |-> 0, channels |-> 0, pix |-> <<>>]

(***************************************************************************)
(* The settings.  The two thresholds are floats in the source (2.0, 1.3);  *)
(* they are carried in tenths.                                             *)
(***************************************************************************)
DefaultRangeMin == -50
DefaultRangeSize == 100
DefaultKernel == 24
DefaultCrossCorr == 20
DefaultCorrScore == 13

\* the defaults the constructor stores
DefaultSettings ==
  [search_range |-> BBox2i(DefaultRangeMin, DefaultRangeMin, DefaultRangeSize, DefaultRangeSize),
   kernel_size |-> Vector2i(DefaultKernel, DefaultKernel),
   do_h_subpixel |-> TRUE,
   do_v_subpixel |-> TRUE,
   do_affine_subpixel |-> FALSE,
   cross_corr_threshold |-> DefaultCrossCorr,
   corr_score_threshold |-> DefaultCorrScore,
   debug_prefix |-> ""]

\* argument values the setters are called with
RangeArgs == { BBox2i(0, 0, 1, 0), BBox2i(-1, 0, 2, 1), BBoxMinMax(<<1, 0>>, <<0, 0>>) }
KernelArgs == { Vector2i(1, 1), Vector2i(2, 1), Vector2i(0, 0) }
SubpixelArgs == { <<FALSE, TRUE, TRUE>> }
ThresholdArgs == { 15 }
PrefixArgs == { "dbg" }

\* the bboxes rasterize() is called with: two that overlap, one whose crops lie
\* outside the images, and an empty one
BBoxArgs == { BBox2i(2, 0, 2, 1), BBox2i(1, 0, 2, 2), BBox2i(5, 3, 1, 1), BBox2i(1, 1, 0, 1) }

(***************************************************************************)
(* Library pieces the view is built on (vw/Image, vw/Stereo).              *)
(***************************************************************************)
\* edge_extend(image, ZeroEdgeExtension()) read at image pixel (x, y)
ZeroEdgeExtension(img, x, y) ==
  IF 0 <= x /\ x < img.cols /\ 0 <= y /\ y < img.rows THEN img.pix[<<x, y>>] ELSE 0

\* crop(edge_extend(image, ZeroEdgeExtension()), bbox), rasterized into an ImageView
crop(img, bbox) ==
  [cols |-> width(bbox), rows |-> height(bbox),
   pix |-> [p \in Grid(width(bbox), height(bbox)) |->
              ZeroEdgeExtension(img, p[1] + bbox.min[1], p[2] + bbox.min[2])]]

MissingPixel == [h |-> 0, v |-> 0, missing |-> TRUE]

\* offsets d of the origin-based search window at which the right tile matches
\* the left tile's pixel p
Matches(corr, left, right, p) ==
  { d \in (0..width(corr.search_range)) \X (0..height(corr.search_range)) :
      /\ VAdd(p, d) \in DOMAIN right.pix
      /\ left.pix[p] # 0
      /\ right.pix[VAdd(p, d)] = left.pix[p] }

\* the first match in row-major order
FirstMatch(S) ==
  CHOOSE d \in S : \A e \in S : d[2] < e[2] \/ (d[2] = e[2] /\ d[1] <= e[1])

\* PyramidCorrelator::operator()(left, right, preproc): a pure function of its
\* arguments giving one disparity, or missing, per pixel of the left tile
PyramidCorrelator(corr, left, right) ==
  [cols |-> left.cols, rows |-> left.rows,
   pix |-> [p \in DOMAIN left.pix |->
              LET S == Matches(corr, left, right, p)
              IN IF S = {} THEN MissingPixel
                 ELSE [h |-> FirstMatch(S)[1], v |-> FirstMatch(S)[2], missing |-> FALSE]]]

\* PyramidCorrelator's constructor rejects a non-positive kernel dimension and
\* an inverted search range
ValidCorrelatorArgs(corr) ==
  /\ corr.kernel_size[1] > 0
  /\ corr.kernel_size[2] > 0
  /\ width(corr.search_range) >= 0
  /\ height(corr.search_range) >= 0

\* what a read outside an ImageView's storage may give
Garbage == { MissingPixel, [h |-> 0, v |-> 0, missing |-> FALSE] }

(***************************************************************************)
(* The pieces of prerasterize(bbox), as functions of the members read.     *)
(***************************************************************************)
\* the right crop placed by the search range alone, wherever bbox lies
right_crop_at_origin(bbox, sr) ==
  BBoxMinMax(sr.min, VAdd(VSub(bbox.max, bbox.min), sr.max))

\* BBox2i right_crop_bbox(bbox.min() + m_search_range.min(), bbox.max() + m_search_range.max())
right_crop_unpadded(bbox, sr) ==
  BBoxMinMax(VAdd(bbox.min, sr.min), VAdd(bbox.max, sr.max))

\* the left crop left at bbox, not resized to the right crop
left_crop_not_resized(bbox, rc) == BBoxMinMax(bbox.min, bbox.max)

\* left_crop_bbox(bbox); left_crop_bbox.max() = left_crop_bbox.min() + (right width, right height)
left_crop_unpadded(bbox, rc) ==
  BBoxMinMax(bbox.min, VAdd(bbox.min, Vector2i(width(rc), height(rc))))

\* the boxes moved outward by half the kernel only
pad_bbox_half(box, ks) ==
  BBoxMinMax(VSub(box.min, Vector2i(ks[1] \div 2, ks[2] \div 2)),
             VAdd(box.max, Vector2i(ks[1] \div 2, ks[2] \div 2)))

\* box.min() -= Vector2i(m_kernel_size[0], m_kernel_size[1]); box.max() += the same
pad_bbox(box, ks) ==
  BBoxMinMax(VSub(box.min, Vector2i(ks[1], ks[2])), VAdd(box.max, Vector2i(ks[1], ks[2])))

\* the correlator's constructor arguments
correlator_args(v) ==
  [search_range |-> BBox2i(0, 0, width(v.search_range), height(v.search_range)),
   kernel_size |-> Vector2i(v.kernel_size[1], v.kernel_size[2]),
   cross_corr_threshold |-> v.cross_corr_threshold,
   corr_score_threshold |-> v.corr_score_threshold,
   do_h_subpixel |-> v.do_h_subpixel,
   do_v_subpixel |-> v.do_v_subpixel,
   do_affine_subpixel |-> v.do_affine_subpixel]

\* the offset added to missing pixels as well
adjust_pixel_unguarded(d, sr) == [d EXCEPT !.h = d.h + sr.min[1], !.v = d.v + sr.min[2]]

\* the body of the adjustment loop for one pixel
adjust_pixel(d, sr) ==
  IF ~d.missing THEN [d EXCEPT !.h = d.h + sr.min[1], !.v = d.v + sr.min[2]] ELSE d

\* the disparity map left relative to the correlator's search window
adjust_disparities_skipped(dm, sr) == dm

\* the adjustment loop over the whole disparity map
adjust_disparities(dm, sr) ==
  [dm EXCEPT !.pix = [p \in DOMAIN dm.pix |-> adjust_pixel(dm.pix[p], sr)]]

\* the crop placed at bbox.min - kernel_size, the offset with its sign turned
result_crop_negated(bbox, ks) ==
  BBox2i(bbox.min[1] - ks[1], bbox.min[2] - ks[2], width(bbox), height(bbox))

\* the crop placed without the kernel padding
result_crop_unpadded(bbox, ks) ==
  BBox2i(0 - bbox.min[1], 0 - bbox.min[2], width(bbox), height(bbox))

\* the BBox2i handed to the returned CropView
result_crop_bbox(bbox, ks) ==
  BBox2i(ks[1] - bbox.min[1], ks[2] - bbox.min[2], width(bbox), height(bbox))

\* CropView::operator()(x, y): the child's pixel the crop shows at (x, y)
crop_index(cb, x, y) == <<x + cb.min[1], y + cb.min[2]>>

(***************************************************************************)
(* vw/Image/ImageResource.h: ImageFormat and ImageBuffer.  A data pointer  *)
(* is a byte address; 0 is the null pointer.                               *)
(***************************************************************************)
PixelFormats == {"VW_PIXEL_UNKNOWN", "VW_PIXEL_SCALAR", "VW_PIXEL_GRAYA", "VW_PIXEL_RGB"}
ChannelTypes == {"VW_CHANNEL_UNKNOWN", "VW_CHANNEL_UINT8", "VW_CHANNEL_INT16", "VW_CHANNEL_FLOAT32"}

\* num_channels_nothrow(format): 0 for a format that has no known channel count
num_channels_nothrow(pf) ==
  CASE pf = "VW_PIXEL_SCALAR" -> 1
    [] pf = "VW_PIXEL_GRAYA" -> 2
    [] pf = "VW_PIXEL_RGB" -> 3
    [] OTHER -> 0

\* channel_size_nothrow(type): 0 for a type that has no known size
channel_size_nothrow(ct) ==
  CASE ct = "VW_CHANNEL_UINT8" -> 1
    [] ct = "VW_CHANNEL_INT16" -> 2
    [] ct = "VW_CHANNEL_FLOAT32" -> 4
    [] OTHER -> 0

\* ImageFormat()
ImageFormat ==
  [cols |-> 0, rows |-> 0, planes |-> 0,
   pixel_format |-> "VW_PIXEL_UNKNOWN", channel_type |-> "VW_CHANNEL_UNKNOWN"]

\* complete() without the test of planes
complete_without_planes(f) ==
  /\ f.cols # 0
  /\ f.rows # 0
  /\ num_channels_nothrow(f.pixel_format) > 0
  /\ channel_size_nothrow(f.channel_type) > 0

\* ImageFormat::complete()
complete(f) ==
  /\ f.cols # 0
  /\ f.rows # 0
  /\ f.planes # 0
  /\ num_channels_nothrow(f.pixel_format) > 0
  /\ channel_size_nothrow(f.channel_type) > 0

\* the formats an image resource may have: cols, rows and planes are uint32
Formats ==
  [cols : 0..MaxDim, rows : 0..MaxDim, planes : 0..MaxDim,
   pixel_format : PixelFormats, channel_type : ChannelTypes]

\* num_channels(format) and channel_size(type) where they do not throw
num_channels(pf) == num_channels_nothrow(pf)
channel_size(ct) == channel_size_nothrow(ct)

\* ImageBuffer()
ImageBuffer0 ==
  [data |-> 0, format |-> ImageFormat, cstride |-> 0, rstride |-> 0, pstride |-> 0,
   unpremultiplied |-> FALSE]

\* the stride of a row taken for the stride of a plane
ImageBuffer_flat(f, data, unpremultiplied) ==
  [data |-> data, format |-> f,
   cstride |-> channel_size(f.channel_type) * num_channels(f.pixel_format),
   rstride |-> (channel_size(f.channel_type) * num_channels(f.pixel_format)) * f.cols,
   pstride |-> (channel_size(f.channel_type) * num_channels(f.pixel_format)) * f.cols,
   unpremultiplied |-> unpremultiplied]

\* ImageBuffer(format, data, unpremultiplied): populates the strides from format
ImageBuffer(f, data, unpremultiplied) ==
  [data |-> data, format |-> f,
   cstride |-> channel_size(f.channel_type) * num_channels(f.pixel_format),
   rstride |-> (channel_size(f.channel_type) * num_channels(f.pixel_format)) * f.cols,
   pstride |-> ((channel_size(f.channel_type) * num_channels(f.pixel_format)) * f.cols) * f.rows,
   unpremultiplied |-> unpremultiplied]

\* ImageBuffer::cols(), rows(), planes()
cols(b) == b.format.cols
rows(b) == b.format.rows
planes(b) == b.format.planes

\* ImageBuffer::byte_size()
byte_size(b) == planes(b) * b.pstride

\* the base advanced with the two strides exchanged
cropped_transposed(b, bbox) ==
  [b EXCEPT !.data = b.data + b.rstride * bbox.min[1] + b.cstride * bbox.min[2],
            !.format.cols = width(bbox),
            !.format.rows = height(bbox)]

\* ImageBuffer::cropped(bbox)
cropped(b, bbox) ==
  [b EXCEPT !.data = b.data + b.cstride * bbox.min[1] + b.rstride * bbox.min[2],
            !.format.cols = width(bbox),
            !.format.rows = height(bbox)]

\* the byte offset of pixel (i, j, p) from the base
pixel_offset(b, i, j, p) == i * b.cstride + j * b.rstride + p * b.pstride

\* ImageBuffer::operator()(i, j, p): the address of pixel (i, j, p)
pixel_address(b, i, j, p) == b.data + pixel_offset(b, i, j, p)

\* no call made yet
NoRet == [op |-> "none", exc |-> "none", value |-> <<>>]

\* the state outside the view: format, buffers and the last outcome
Resource == <<format, buffer, cropped_buffer, ret>>

(***************************************************************************)
(* levenberg_marquardt(p, z, model) (src/unnamed/part_000).  A parameter   *)
(* vector is a number in Params; cost[q] is the squared residual norm      *)
(* sum(elem_prod(e, e)), e = model.diff(z, model(q)), in units of 1/Scale. *)
(* lambda is carried as its decimal exponent: 0.1 is -1, lambda *= 10 adds *)
(* one and lambda /= 10 takes one away.                                    *)
(***************************************************************************)
\* units per 1.0: ABS_TOL (0.001) and REL_TOL (0.001) are one unit each
Scale == 1000
ABS_TOL == 1
REL_TOL == 1
\* double lambda = 0.1
LambdaInit == -1
\* if (iterations > 5): the short circuit
MaxInner == 5

Params == 0..MaxParam

\* squared residual norms a parameter vector may have
NormValues == {0, 1, 2, 1998, 1999, 2000}

\* a Vector<double> that has not been assigned
EmptyVector == <<>>

\* the observation vector
ZArg == "z"

\* the arguments and locals before the call; guess is p as the caller passed it
NoLM ==
  [pc |-> "idle", guess |-> 0, p |-> 0, z |-> ZArg, cost |-> [q \in Params |-> 0],
   converged |-> FALSE, lambda |-> LambdaInit, norm_start |-> 0, norm_try |-> 0,
   outer_iter |-> 0, shortCircuit |-> FALSE, iterations |-> 0, ptry |-> EmptyVector,
   result |-> "none"]

\* if (norm_start < ABS_TOL) converged = true
initial_check(norm_start) == norm_start < ABS_TOL

\* the relative test alone
convergence_tests_rel(norm_start, norm_try) ==
  norm_start # 0 /\ (norm_start - norm_try) * Scale < REL_TOL * norm_start

\* the two tests after the inner loop: (norm_start-norm_try)/norm_start < REL_TOL,
\* which is false for 0/0, or norm_try < ABS_TOL
convergence_tests(norm_start, norm_try) ==
  \/ (norm_start # 0 /\ (norm_start - norm_try) * Scale < REL_TOL * norm_start)
  \/ norm_try < ABS_TOL

\* the locals after h = model(p) ... if (norm_start < ABS_TOL) converged = true
lm_enter(c) ==
  [c EXCEPT !.pc = "outer",
            !.converged = initial_check(c.cost[c.p]),
            !.lambda = LambdaInit,
            !.norm_start = c.cost[c.p],
            !.outer_iter = 0]

\* the head of an outer iteration, up to the inner loop
lm_outer(c) ==
  [c EXCEPT !.pc = "inner",
            !.shortCircuit = FALSE,
            !.outer_iter = c.outer_iter + 1,
            !.norm_start = c.cost[c.p],
            !.iterations = 0,
            !.norm_try = c.cost[c.p] + Scale]

\* one pass of the inner loop's body with trial vector ptry = p - delta_p
lm_trial(c, ptry) ==
  LET tried == c.cost[ptry]
      rejected == tried > c.norm_start
      short == c.iterations + 1 > MaxInner
  IN [c EXCEPT !.ptry = ptry,
               !.lambda = IF rejected THEN c.lambda + 1 ELSE c.lambda,
               !.iterations = c.iterations + 1,
               !.shortCircuit = IF short THEN TRUE ELSE c.shortCircuit,
               !.norm_try = IF short THEN c.norm_start ELSE tried]

\* the tail of an outer iteration with p = ptry taken after a short circuit too
lm_end_outer_unguarded(c) ==
  [c EXCEPT !.pc = "outer",
            !.converged = c.converged \/ convergence_tests(c.norm_start, c.norm_try),
            !.p = c.ptry,
            !.norm_start = c.norm_try,
            !.lambda = c.lambda - 1]

\* the tail of an outer iteration, after the inner loop
lm_end_outer(c) ==
  [c EXCEPT !.pc = "outer",
            !.converged = c.converged \/ convergence_tests(c.norm_start, c.norm_try),
            !.p = IF ~c.shortCircuit THEN c.ptry ELSE c.p,
            !.norm_start = c.norm_try,
            !.lambda = c.lambda - 1]

(***************************************************************************)
(* State.                                                                  *)
(***************************************************************************)
NoCall ==
  [pc |-> "idle", exc |-> "none", bbox |-> NoBox, cfg |-> DefaultSettings, mods |-> 0,
   left_crop_bbox |-> NoBox, right_crop_bbox |-> NoBox,
   cropped_left_image |-> NoImage, cropped_right_image |-> NoImage,
   correlator |-> correlator_args(DefaultSettings), debug |-> "",
   disparity_map |-> NoImage, prerasterized |-> NoBox, dest |-> <<>>]

\* a call that has been entered and has neither returned nor thrown
InFlight(c) == c.pc \notin {"idle", "done", "threw"}

Init ==
  /\ phase = "none"
  /\ err = "none"
  /\ left_image = NoSourceImage
  /\ right_image = NoSourceImage
  /\ view = DefaultSettings
  /\ mods = 0
  /\ call = [t \in Threads |-> NoCall]
  /\ format = ImageFormat
  /\ buffer = ImageBuffer0
  /\ cropped_buffer = ImageBuffer0
  /\ ret = NoRet
  /\ lm = NoLM

(***************************************************************************)
(* CorrelatorView::CorrelatorView(left_image, right_image, preproc_func)   *)
(***************************************************************************)
\* the rows left out of the comparison
DimensionsAgree_cols(l, r) == l.cols = r.cols

DimensionsAgree(l, r) == l.cols = r.cols /\ l.rows = r.rows

SingleChannelPlane(l, r) ==
  l.channels = 1 /\ l.planes = 1 /\ r.channels = 1 /\ r.planes = 1

Construct(l, r) ==
  /\ phase = "none"
  /\ IF ~DimensionsAgree(l, r) \/ ~SingleChannelPlane(l, r)
       THEN /\ phase' = "failed"
            /\ err' = "ArgumentErr"
            /\ UNCHANGED view
       ELSE /\ phase' = "built"
            /\ view' = DefaultSettings
            /\ UNCHANGED err
  /\ left_image' = l
  /\ right_image' = r
  /\ UNCHANGED <<mods, call, Resource, lm>>

(***************************************************************************)
(* The setters.                                                            *)
(***************************************************************************)
Set(v) ==
  /\ phase = "built"
  /\ mods < MaxSets
  /\ view' = v
  /\ mods' = mods + 1
  /\ UNCHANGED <<phase, err, left_image, right_image, call, Resource, lm>>

set_search_range(range) == Set([view EXCEPT !.search_range = range])

set_kernel_size(size) == Set([view EXCEPT !.kernel_size = size])

set_subpixel_options(do_horizontal, do_vertical, do_affine) ==
  Set([view EXCEPT !.do_h_subpixel = do_horizontal,
                   !.do_v_subpixel = do_vertical,
                   !.do_affine_subpixel = do_affine])

set_cross_corr_threshold(threshold) == Set([view EXCEPT !.cross_corr_threshold = threshold])

set_corr_score_threshold(threshold) == Set([view EXCEPT !.corr_score_threshold = threshold])

set_debug_mode(prefix) == Set([view EXCEPT !.debug_prefix = prefix])

(***************************************************************************)
(* rasterize(dest, bbox) -> prerasterize(bbox): what each stretch of the   *)
(* body does to the locals c of one call, given the members it reads.      *)
(***************************************************************************)
\* entry, and the two crop boxes before the kernel adjustment; n is the number
\* of setter calls the view has seen
enter(bbox, v, n) ==
  [NoCall EXCEPT
     !.pc = "pad", !.bbox = bbox, !.cfg = v, !.mods = n,
     !.right_crop_bbox = right_crop_unpadded(bbox, v.search_range),
     !.left_crop_bbox = left_crop_unpadded(bbox, right_crop_unpadded(bbox, v.search_range))]

\* the kernel adjustment of both boxes
pad(c, v) ==
  [c EXCEPT !.pc = "crop",
            !.right_crop_bbox = pad_bbox(c.right_crop_bbox, v.kernel_size),
            !.left_crop_bbox = pad_bbox(c.left_crop_bbox, v.kernel_size)]

\* the left tile cut from the right image
cropped_left_from_right(c, l, r) == crop(r, c.left_crop_bbox)

cropped_left(c, l, r) == crop(l, c.left_crop_bbox)

cropped_right(c, l, r) == crop(r, c.right_crop_bbox)

\* the two edge-extended crops; materializing an empty region throws
crops(c, l, r) ==
  IF empty(c.left_crop_bbox) \/ empty(c.right_crop_bbox)
    THEN [c EXCEPT !.pc = "threw", !.exc = "InvalidRegion"]
    ELSE [c EXCEPT !.pc = "correlate",
                   !.cropped_left_image = cropped_left(c, l, r),
                   !.cropped_right_image = cropped_right(c, l, r)]

\* the debug prefix given to the correlator
debug_name(bbox, prefix) ==
  IF prefix # "" THEN prefix \o "-" \o ToString(bbox.min[1]) \o "-" \o ToString(bbox.max[1])
                        \o "_" \o ToString(bbox.min[2]) \o "-" \o ToString(bbox.max[2]) \o "-"
  ELSE ""

\* construct the correlator and run it on the two tiles
correlate(c, v) ==
  IF ~ValidCorrelatorArgs(correlator_args(v))
    THEN [c EXCEPT !.pc = "threw", !.exc = "ConfigError", !.correlator = correlator_args(v)]
    ELSE [c EXCEPT !.pc = "adjust",
                   !.correlator = correlator_args(v),
                   !.debug = debug_name(c.bbox, v.debug_prefix),
                   !.disparity_map =
                      PyramidCorrelator(correlator_args(v), c.cropped_left_image,
                                        c.cropped_right_image)]

\* the adjustment loop
adjust(c, v) ==
  [c EXCEPT !.pc = "return",
            !.disparity_map = adjust_disparities(c.disparity_map, v.search_range)]

\* pixels of bbox the returned CropView reads outside the disparity map
Outside(dm, cb, bbox) ==
  { q \in BoxPixels(bbox) : crop_index(cb, q[1], q[2]) \notin DOMAIN dm.pix }

\* vw::rasterize(prerasterized, dest, bbox): dest(x - min.x, y - min.y) is the
\* prerasterized view read at (x, y); dest is kept indexed by image pixel
rasterized(dm, cb, bbox, g) ==
  [q \in BoxPixels(bbox) |->
     IF crop_index(cb, q[1], q[2]) \in DOMAIN dm.pix
       THEN dm.pix[crop_index(cb, q[1], q[2])]
       ELSE g[q]]

\* return the CropView and rasterize it into dest
return(c, v, g) ==
  [c EXCEPT !.pc = "done",
            !.prerasterized = result_crop_bbox(c.bbox, v.kernel_size),
            !.dest = rasterized(c.disparity_map, result_crop_bbox(c.bbox, v.kernel_size),
                                c.bbox, g)]

\* the reads of return(c, v, _) that fall outside the disparity map
OutsideReads(c, v) ==
  [Outside(c.disparity_map, result_crop_bbox(c.bbox, v.kernel_size), c.bbox) -> Garbage]

\* the sides of the padded tiles a call with bbox materializes
TileSides(bbox, v) ==
  { width(bbox) + width(v.search_range) + 2 * v.kernel_size[1],
    height(bbox) + height(v.search_range) + 2 * v.kernel_size[2] }

(***************************************************************************)
(* A whole rasterize(dest, bbox) call with no other step in between.       *)
(***************************************************************************)
\* the locals up to the adjustment loop, or up to the throw
prerasterize(bbox, v, n, l, r) ==
  LET c2 == crops(pad(enter(bbox, v, n), v), l, r)
      c3 == correlate(c2, v)
  IN IF c2.pc = "threw" THEN c2
     ELSE IF c3.pc = "threw" THEN c3
     ELSE adjust(c3, v)

\* a call that leaves the origin-based range of the correlator in m_search_range
rasterize_moves_range(t, bbox) ==
  /\ phase = "built"
  /\ ~InFlight(call[t])
  /\ \A n \in TileSides(bbox, view) : n <= MaxTile
  /\ LET c == prerasterize(bbox, view, mods, left_image, right_image)
     IN IF c.pc = "threw"
          THEN call' = [call EXCEPT ![t] = c]
          ELSE \E g \in OutsideReads(c, view) : call' = [call EXCEPT ![t] = return(c, view, g)]
  /\ view' = [view EXCEPT !.search_range = correlator_args(view).search_range]
  /\ UNCHANGED <<phase, err, left_image, right_image, mods, Resource, lm>>

rasterize(t, bbox) ==
  /\ phase = "built"
  /\ ~InFlight(call[t])
  /\ \A n \in TileSides(bbox, view) : n <= MaxTile
  /\ LET c == prerasterize(bbox, view, mods, left_image, right_image)
     IN IF c.pc = "threw"
          THEN call' = [call EXCEPT ![t] = c]
          ELSE \E g \in OutsideReads(c, view) : call' = [call EXCEPT ![t] = return(c, view, g)]
  /\ UNCHANGED <<phase, err, left_image, right_image, view, mods, Resource, lm>>

Next ==
  \/ \E pair \in ImagePairs : Construct(pair[1], pair[2])
  \/ \E range \in RangeArgs : set_search_range(range)
  \/ \E size \in KernelArgs : set_kernel_size(size)
  \/ \E o \in SubpixelArgs : set_subpixel_options(o[1], o[2], o[3])
  \/ \E th \in ThresholdArgs : set_cross_corr_threshold(th)
  \/ \E th \in ThresholdArgs : set_corr_score_threshold(th)
  \/ \E prefix \in PrefixArgs : set_debug_mode(prefix)
  \/ \E t \in Callers, bbox \in BBoxArgs : rasterize(t, bbox)

\* construction, configuration, and tiles rasterized one after the other
Spec == Init /\ [][Next]_vars

(***************************************************************************)
(* Tiles of one configured view rasterized by several threads at once: the *)
(* steps of the calls interleave.  A step assigns only locals of its call. *)
(***************************************************************************)
\* the configurations the tile threads find the view in
TileSettings ==
  { [DefaultSettings EXCEPT !.search_range = range, !.kernel_size = size,
                            !.debug_prefix = prefix] :
      range \in RangeArgs, size \in KernelArgs, prefix \in PrefixArgs \cup {""} }

InitTiles ==
  /\ phase = "built"
  /\ err = "none"
  /\ \E pair \in ImagePairs :
       /\ DimensionsAgree(pair[1], pair[2])
       /\ SingleChannelPlane(pair[1], pair[2])
       /\ left_image = pair[1]
       /\ right_image = pair[2]
  /\ view \in TileSettings
  /\ mods = MaxSets
  /\ call = [t \in Threads |-> NoCall]
  /\ format = ImageFormat
  /\ buffer = ImageBuffer0
  /\ cropped_buffer = ImageBuffer0
  /\ ret = NoRet
  /\ lm = NoLM

Shared == <<phase, err, left_image, right_image, view, mods, Resource, lm>>

Enter(t, bbox) ==
  /\ phase = "built"
  /\ ~InFlight(call[t])
  /\ \A n \in TileSides(bbox, view) : n <= MaxTile
  /\ call' = [call EXCEPT ![t] = enter(bbox, view, mods)]
  /\ UNCHANGED Shared

PadBoxes(t) ==
  /\ call[t].pc = "pad"
  /\ call' = [call EXCEPT ![t] = pad(call[t], view)]
  /\ UNCHANGED Shared

CropImages(t) ==
  /\ call[t].pc = "crop"
  /\ call' = [call EXCEPT ![t] = crops(call[t], left_image, right_image)]
  /\ UNCHANGED Shared

Correlate(t) ==
  /\ call[t].pc = "correlate"
  /\ call' = [call EXCEPT ![t] = correlate(call[t], view)]
  /\ UNCHANGED Shared

\* the adjustment loop run over a disparity buffer the calls share
AdjustDisparities_shared(t) ==
  /\ call[t].pc = "adjust"
  /\ call' = [u \in Threads |->
       IF u = t THEN adjust(call[t], view)
       ELSE IF call[u].pc = "return"
         THEN [call[u] EXCEPT
                 !.disparity_map = adjust_disparities(call[u].disparity_map, view.search_range)]
         ELSE call[u]]
  /\ UNCHANGED Shared

AdjustDisparities(t) ==
  /\ call[t].pc = "adjust"
  /\ call' = [call EXCEPT ![t] = adjust(call[t], view)]
  /\ UNCHANGED Shared

Return(t) ==
  /\ call[t].pc = "return"
  /\ \E g \in OutsideReads(call[t], view) :
       call' = [call EXCEPT ![t] = return(call[t], view, g)]
  /\ UNCHANGED Shared

NextTiles ==
  \/ \E t \in Threads, bbox \in BBoxArgs : Enter(t, bbox)
  \/ \E t \in Threads : PadBoxes(t)
  \/ \E t \in Threads : CropImages(t)
  \/ \E t \in Threads : Correlate(t)
  \/ \E t \in Threads : AdjustDisparities(t)
  \/ \E t \in Threads : Return(t)

SpecTiles == InitTiles /\ [][NextTiles]_vars

(***************************************************************************)
(* An image resource of some format, the ImageBuffer that describes its    *)
(* pixels, and the calls made on them and on a constructed view outside    *)
(* the tile path.                                                          *)
(***************************************************************************)
\* the members of the view and the calls in its tile path
View == <<phase, err, left_image, right_image, view, mods, call>>

\* arguments of the ImageBuffer constructor and of cropped()
DataArgs == { 64 }
UnpremultipliedArgs == { TRUE }
CropArgs == { BBox2i(0, 0, 1, 1), BBox2i(1, 0, 1, 2), BBox2i(0, 1, 2, 1), BBox2i(1, 1, 1, 1) }

\* arguments of the optional calls
BlockSizeArgs == { Vector2i(1, 1) }
NodataArgs == { 0 }
PixelArgs == { <<0, 0>> }

InitImage ==
  /\ phase = "built"
  /\ err = "none"
  /\ left_image = MakeImage(3, 2, 1, 1, 1)
  /\ right_image = ShiftImage(MakeImage(3, 2, 1, 1, 1))
  /\ view = DefaultSettings
  /\ mods = 0
  /\ call = [t \in Threads |-> NoCall]
  /\ format \in Formats
  /\ buffer = ImageBuffer0
  /\ cropped_buffer = ImageBuffer0
  /\ ret = NoRet
  /\ lm = NoLM

\* format.complete()
Complete ==
  /\ ret' = [op |-> "complete", exc |-> "none", value |-> complete(format)]
  /\ UNCHANGED <<View, format, buffer, cropped_buffer, lm>>

\* ImageBuffer buffer(format, data, unpremultiplied); num_channels() and
\* channel_size() throw for an enum value they do not know
NewImageBuffer(data, unpremultiplied) ==
  /\ IF num_channels_nothrow(format.pixel_format) = 0
          \/ channel_size_nothrow(format.channel_type) = 0
       THEN /\ ret' = [op |-> "ImageBuffer", exc |-> "ArgumentErr", value |-> <<>>]
            /\ UNCHANGED buffer
       ELSE /\ buffer' = ImageBuffer(format, data, unpremultiplied)
            /\ ret' = [op |-> "ImageBuffer", exc |-> "none", value |-> <<>>]
  /\ UNCHANGED <<View, format, cropped_buffer, lm>>

\* cropped_buffer = buffer.cropped(bbox)
Cropped(bbox) ==
  /\ buffer.data # 0
  /\ cropped_buffer' = cropped(buffer, bbox)
  /\ ret' = [op |-> "cropped", exc |-> "none", value |-> bbox]
  /\ UNCHANGED <<View, format, buffer, lm>>

\* a call that throws: nothing but the outcome is new
Throws(op, exc) ==
  /\ ret' = [op |-> op, exc |-> exc, value |-> <<>>]
  /\ UNCHANGED <<View, format, buffer, cropped_buffer, lm>>

\* a call that returns value
Returns(op, value) ==
  /\ ret' = [op |-> op, exc |-> "none", value |-> value]
  /\ UNCHANGED <<View, format, buffer, cropped_buffer, lm>>

\* SrcImageResource::block_read_size(), of a resource whose cols() and rows()
\* are those of format
block_read_size == Returns("block_read_size", Vector2i(format.cols, format.rows))

\* SrcImageResource::nodata_read()
nodata_read == Throws("nodata_read", "NoImplErr")

\* DstImageResource::block_write_size()
block_write_size == Throws("block_write_size", "NoImplErr")

\* DstImageResource::set_block_write_size(v)
set_block_write_size(v) == Throws("set_block_write_size", "NoImplErr")

\* DstImageResource::set_nodata_write(value)
set_nodata_write(value) == Throws("set_nodata_write", "NoImplErr")

\* CorrelatorView::operator()(i, j, p)
operator_call(i, j) ==
  /\ phase = "built"
  /\ Throws("CorrelatorView::operator()", "NoImplErr")

NextImage ==
  \/ Complete
  \/ \E data \in DataArgs, unpremultiplied \in UnpremultipliedArgs :
       NewImageBuffer(data, unpremultiplied)
  \/ \E bbox \in CropArgs : Cropped(bbox)
  \/ block_read_size
  \/ nodata_read
  \/ block_write_size
  \/ \E v \in BlockSizeArgs : set_block_write_size(v)
  \/ \E value \in NodataArgs : set_nodata_write(value)
  \/ \E ij \in PixelArgs : operator_call(ij[1], ij[2])

SpecImage == InitImage /\ [][NextImage]_vars

(***************************************************************************)
(* One levenberg_marquardt(p, z, model) call, for every model in a bounded *)
(* set: a model gives each parameter vector its residual norm.  The trial  *)
(* vector p - delta_p comes out of least_squares() on matrices built from  *)
(* the model's Jacobian and lambda; it may be any parameter vector.        *)
(***************************************************************************)
\* everything but the optimizer
NotLM == <<View, Resource>>

InitLM ==
  /\ phase = "none"
  /\ err = "none"
  /\ left_image = NoSourceImage
  /\ right_image = NoSourceImage
  /\ view = DefaultSettings
  /\ mods = 0
  /\ call = [t \in Threads |-> NoCall]
  /\ format = ImageFormat
  /\ buffer = ImageBuffer0
  /\ cropped_buffer = ImageBuffer0
  /\ ret = NoRet
  /\ \E guess \in Params, cost \in [Params -> NormValues] :
       lm = [NoLM EXCEPT !.pc = "called", !.guess = guess, !.p = guess, !.cost = cost]

\* entry: the initial residual and the test against ABS_TOL
LMEnter ==
  /\ lm.pc = "called"
  /\ lm' = lm_enter(lm)
  /\ UNCHANGED NotLM

\* while (!converged): the loop is left and the function returns
LMReturn ==
  /\ lm.pc = "outer"
  /\ lm.converged
  /\ lm' = [lm EXCEPT !.pc = "returned", !.result = "void"]
  /\ UNCHANGED NotLM

\* while (!converged): an outer iteration begins
LMOuter ==
  /\ lm.pc = "outer"
  /\ ~lm.converged
  /\ lm' = lm_outer(lm)
  /\ UNCHANGED NotLM

\* while (norm_try > norm_start): one trial step
LMTrial(ptry) ==
  /\ lm.pc = "inner"
  /\ lm.norm_try > lm.norm_start
  /\ lm' = lm_trial(lm, ptry)
  /\ UNCHANGED NotLM

\* while (norm_try > norm_start): the loop is left and the outer iteration ends
LMEndOuter ==
  /\ lm.pc = "inner"
  /\ ~(lm.norm_try > lm.norm_start)
  /\ lm' = lm_end_outer(lm)
  /\ UNCHANGED NotLM

NextLM ==
  \/ LMEnter
  \/ LMReturn
  \/ LMOuter
  \/ \E ptry \in Params : LMTrial(ptry)
  \/ LMEndOuter

SpecLM == InitLM /\ [][NextLM]_vars

(***************************************************************************)
(* Properties of the tile path, checked while tiles are rasterized by      *)
(* several threads (SpecTiles).                                            *)
(***************************************************************************)
AfterPad == {"crop", "correlate", "adjust", "return", "done"}
AfterCrop == {"correlate", "adjust", "return", "done"}

\* C1: before the kernel adjustment the right crop is
\* [bbox.min + search_range.min, bbox.max + search_range.max) and the left crop
\* starts at bbox.min with the right crop's width and height; after the
\* adjustment, and in the tiles handed to the correlator, the two have the same
\* width and the same height.
C1_CropBoxes ==
  \A t \in Threads :
    LET c == call[t]
        sr == view.search_range
    IN /\ c.pc = "pad" =>
            /\ c.right_crop_bbox.min[1] = c.bbox.min[1] + sr.min[1]
            /\ c.right_crop_bbox.min[2] = c.bbox.min[2] + sr.min[2]
            /\ c.right_crop_bbox.max[1] = c.bbox.max[1] + sr.max[1]
            /\ c.right_crop_bbox.max[2] = c.bbox.max[2] + sr.max[2]
            /\ c.left_crop_bbox.min = c.bbox.min
            /\ c.left_crop_bbox.max[1] - c.left_crop_bbox.min[1]
                 = c.right_crop_bbox.max[1] - c.right_crop_bbox.min[1]
            /\ c.left_crop_bbox.max[2] - c.left_crop_bbox.min[2]
                 = c.right_crop_bbox.max[2] - c.right_crop_bbox.min[2]
       /\ c.pc \in AfterPad =>
            /\ c.left_crop_bbox.max[1] - c.left_crop_bbox.min[1]
                 = c.right_crop_bbox.max[1] - c.right_crop_bbox.min[1]
            /\ c.left_crop_bbox.max[2] - c.left_crop_bbox.min[2]
                 = c.right_crop_bbox.max[2] - c.right_crop_bbox.min[2]
       /\ c.pc \in AfterCrop =>
            /\ c.cropped_left_image.cols = c.cropped_right_image.cols
            /\ c.cropped_left_image.rows = c.cropped_right_image.rows
            /\ DOMAIN c.cropped_left_image.pix = DOMAIN c.cropped_right_image.pix

\* a call with a search range of non-zero extent and offset has cut its tiles
C1_Witness ==
  \E t \in Threads :
    /\ call[t].pc = "correlate"
    /\ view.search_range.min # <<0, 0>>
    /\ width(view.search_range) > 0
    /\ call[t].cropped_left_image.cols > width(call[t].bbox)

\* C2: the adjustment loop adds search_range.min.x to h and search_range.min.y
\* to v of every disparity that is not missing, once, and leaves every missing
\* disparity as it was.
C2_OffsetAdded ==
  [][\A t \in Threads :
       (call[t].pc = "adjust" /\ call'[t].pc = "return") =>
         /\ DOMAIN call'[t].disparity_map.pix = DOMAIN call[t].disparity_map.pix
         /\ \A p \in DOMAIN call[t].disparity_map.pix :
              LET before == call[t].disparity_map.pix[p]
                  after == call'[t].disparity_map.pix[p]
              IN IF before.missing
                   THEN after = before
                   ELSE /\ ~after.missing
                        /\ after.h = before.h + view.search_range.min[1]
                        /\ after.v = before.v + view.search_range.min[2]]_vars

\* an adjusted map with a missing and a non-missing pixel, under a search range
\* whose minimum is not the origin
C2_Witness ==
  \E t \in Threads :
    /\ call[t].pc = "return"
    /\ view.search_range.min[1] # view.search_range.min[2]
    /\ \E p, q \in DOMAIN call[t].disparity_map.pix :
         /\ call[t].disparity_map.pix[p].missing
         /\ ~call[t].disparity_map.pix[q].missing

\* C3: the returned tile covers exactly the pixels of bbox, addressed in image
\* coordinates, and the CropView has bbox's width and height; its value at
\* image pixel (x, y) is the disparity map's value at the index
\* (x - bbox.min.x + pad_x, y - bbox.min.y + pad_y), pad being what was added to
\* the left crop, which is the left-tile pixel cut from image pixel (x, y).
C3_ResultTile ==
  \A t \in Threads :
    LET c == call[t]
        pad_x == c.bbox.min[1] - c.left_crop_bbox.min[1]
        pad_y == c.bbox.min[2] - c.left_crop_bbox.min[2]
    IN c.pc = "done" =>
         /\ DOMAIN c.dest =
              (c.bbox.min[1]..(c.bbox.max[1] - 1)) \X (c.bbox.min[2]..(c.bbox.max[2] - 1))
         /\ c.prerasterized.max[1] - c.prerasterized.min[1] = c.bbox.max[1] - c.bbox.min[1]
         /\ c.prerasterized.max[2] - c.prerasterized.min[2] = c.bbox.max[2] - c.bbox.min[2]
         /\ \A q \in DOMAIN c.dest :
              LET idx == <<q[1] - c.bbox.min[1] + pad_x, q[2] - c.bbox.min[2] + pad_y>>
              IN /\ idx \in DOMAIN c.disparity_map.pix
                 /\ c.dest[q] = c.disparity_map.pix[idx]
                 /\ c.left_crop_bbox.min[1] + idx[1] = q[1]
                 /\ c.left_crop_bbox.min[2] + idx[2] = q[2]

\* a returned tile of more than one pixel that holds a found and a missing
\* disparity, cut from a map that is larger than the tile
C3_Witness ==
  \E t \in Threads :
    /\ call[t].pc = "done"
    /\ \E p, q \in DOMAIN call[t].dest :
         call[t].dest[p].missing /\ ~call[t].dest[q].missing
    /\ call[t].disparity_map.cols > width(call[t].bbox)
    /\ call[t].bbox.min # <<0, 0>>

C5_EdgeExtension ==
  \A t \in Threads :
    LET c == call[t]
        InLeft(x, y) == 0 <= x /\ x < left_image.cols /\ 0 <= y /\ y < left_image.rows
        InRight(x, y) == 0 <= x /\ x < right_image.cols /\ 0 <= y /\ y < right_image.rows
    IN /\ c.pc \in AfterCrop =>
            /\ DOMAIN c.cropped_left_image.pix =
                 (0..(width(c.left_crop_bbox) - 1)) \X (0..(height(c.left_crop_bbox) - 1))
            /\ \A p \in DOMAIN c.cropped_left_image.pix :
                 LET x == c.left_crop_bbox.min[1] + p[1]
                     y == c.left_crop_bbox.min[2] + p[2]
                 IN c.cropped_left_image.pix[p] =
                      IF InLeft(x, y) THEN left_image.pix[<<x, y>>] ELSE 0
            /\ \A p \in DOMAIN c.cropped_right_image.pix :
                 LET x == c.right_crop_bbox.min[1] + p[1]
                     y == c.right_crop_bbox.min[2] + p[2]
                 IN c.cropped_right_image.pix[p] =
                      IF InRight(x, y) THEN right_image.pix[<<x, y>>] ELSE 0
       /\ (c.pc = "threw" /\ c.exc = "InvalidRegion") =>
            (empty(c.left_crop_bbox) \/ empty(c.right_crop_bbox))

\* one call holds a left tile partly outside the image, another holds tiles
\* wholly outside it
C5_Witness ==
  \E t, u \in Threads :
    /\ call[t].pc \in AfterCrop
    /\ \E p, q \in DOMAIN call[t].cropped_left_image.pix :
         /\ call[t].cropped_left_image.pix[p] # 0
         /\ call[t].left_crop_bbox.min[1] + q[1] < 0
    /\ call[u].pc \in AfterCrop
    /\ call[u].left_crop_bbox.min[1] >= left_image.cols
    /\ call[u].right_crop_bbox.min[2] >= right_image.rows

(***************************************************************************)
(* Properties of construction, configuration and whole calls (Spec).       *)
(***************************************************************************)
\* C6: construction from two views whose cols or rows differ, or of which one
\* is not single-channel or not single-plane, throws (ArgumentErr, the
\* FormatMismatch of the design) and yields no view, so no tile is ever
\* rasterized after it; otherwise construction succeeds without an error.
C6_ConstructionValidates ==
  /\ phase # "none" =>
       (phase = "failed" <=>
          \/ left_image.cols # right_image.cols
          \/ left_image.rows # right_image.rows
          \/ left_image.channels # 1
          \/ right_image.channels # 1
          \/ left_image.planes # 1
          \/ right_image.planes # 1)
  /\ phase = "failed" => (err = "ArgumentErr" /\ \A t \in Threads : call[t].pc = "idle")
  /\ phase = "built" => err = "none"
  /\ (\E t \in Threads : call[t].pc # "idle") => phase = "built"

\* construction has failed on two views that differ in rows only
C6_Witness ==
  /\ phase = "failed"
  /\ left_image.cols = right_image.cols
  /\ left_image.rows # right_image.rows

ValidSettings(v) ==
  /\ v.kernel_size[1] > 0
  /\ v.kernel_size[2] > 0
  /\ v.search_range.max[1] >= v.search_range.min[1]
  /\ v.search_range.max[2] >= v.search_range.min[2]

\* C7: a kernel size with a non-positive dimension or an inverted search range
\* is refused when it is set, so no rasterization ever runs with one.
C7_ConfigFailsFast ==
  \A t \in Threads : call[t].pc # "idle" => ValidSettings(call[t].cfg)

\* C8: rasterizing an empty bbox throws InvalidRegion; no tile is produced and
\* the correlator is not invoked.  Stated for calls made under settings the
\* correlator accepts, so that the exception of C7 is not what decides it.
C8_EmptyBBoxRejected ==
  \A t \in Threads :
    ( /\ call[t].pc # "idle"
      /\ ValidSettings(call[t].cfg)
      /\ (width(call[t].bbox) <= 0 \/ height(call[t].bbox) <= 0) ) =>
      /\ call[t].pc = "threw"
      /\ call[t].exc = "InvalidRegion"
      /\ call[t].disparity_map = NoImage

\* C9: whatever steps of other calls on the same view interleave with it, a
\* call that has returned holds a tile the same call returns when it runs
\* alone, and a call that has thrown has thrown what it throws alone.
C9_TilesIndependent ==
  \A t \in Threads :
    call[t].pc \in {"done", "threw"} =>
      LET alone == prerasterize(call[t].bbox, view, mods, left_image, right_image)
      IN IF alone.pc = "threw"
           THEN call[t] = alone
           ELSE \E g \in OutsideReads(alone, view) : call[t] = return(alone, view, g)

\* two calls with different, overlapping bboxes are past the adjustment loop at
\* the same time, each holding disparities that were found
C9_Witness ==
  \E t, u \in Threads :
    /\ t # u
    /\ call[t].pc = "return"
    /\ call[u].pc = "return"
    /\ call[t].bbox # call[u].bbox
    /\ BoxPixels(call[t].bbox) \cap BoxPixels(call[u].bbox) # {}
    /\ \E p \in DOMAIN call[t].disparity_map.pix : ~call[t].disparity_map.pix[p].missing
    /\ \E p \in DOMAIN call[u].disparity_map.pix : ~call[u].disparity_map.pix[p].missing

\* C10: two calls with the same bbox, made with no setter call on the view
\* between them and any number of other calls between them, end the same way
\* and return the same tile.
C10_Idempotent ==
  \A a, b \in Callers :
    ( /\ call[a].pc \in {"done", "threw"}
      /\ call[b].pc \in {"done", "threw"}
      /\ call[a].bbox = call[b].bbox
      /\ call[a].mods = call[b].mods ) =>
        /\ call[a].pc = call[b].pc
        /\ call[a].exc = call[b].exc
        /\ call[a].dest = call[b].dest

\* two callers hold the tile of the same bbox, rasterized under the same
\* settings, with a found and a missing disparity in it
C10_Witness ==
  \E a, b \in Callers :
    /\ a # b
    /\ call[a].pc = "done"
    /\ call[b].pc = "done"
    /\ call[a].bbox = call[b].bbox
    /\ call[a].mods = call[b].mods
    /\ \E p, q \in DOMAIN call[a].dest : call[a].dest[p].missing /\ ~call[a].dest[q].missing

C12_ConfigImmutable ==
  \A t \in Threads :
    (call[t].pc = "done" /\ ~empty(call[t].bbox)) => call[t].cfg = DefaultSettings

(***************************************************************************)
(* Properties of ImageFormat, ImageBuffer and the optional calls           *)
(* (SpecImage).                                                            *)
(***************************************************************************)
\* C13: complete() returns true iff cols, rows and planes are all greater than
\* 0, the pixel format is one with a known channel count and the channel type
\* is one with a known size; for a default-constructed ImageFormat it returns
\* false.
C13_Complete ==
  ret.op = "complete" =>
    /\ ret.value =
         ( /\ format.cols > 0
           /\ format.rows > 0
           /\ format.planes > 0
           /\ format.pixel_format \in {"VW_PIXEL_SCALAR", "VW_PIXEL_GRAYA", "VW_PIXEL_RGB"}
           /\ format.channel_type \in
                {"VW_CHANNEL_UINT8", "VW_CHANNEL_INT16", "VW_CHANNEL_FLOAT32"} )
    /\ format = ImageFormat => ret.value = FALSE

\* complete() has returned true for a format of more than one plane
C13_Witness ==
  /\ ret.op = "complete"
  /\ ret.value = TRUE
  /\ format.planes > 1

\* C14: in an ImageBuffer constructed from a complete format, the byte offset
\* i*cstride + j*rstride + p*pstride of every pixel (i, j, p) with 0 <= i < cols,
\* 0 <= j < rows, 0 <= p < planes is at least 0 and less than planes*pstride,
\* which is byte_size().
C14_OffsetsInBounds ==
  (buffer # ImageBuffer0 /\ complete(buffer.format)) =>
    /\ byte_size(buffer) = buffer.format.planes * buffer.pstride
    /\ \A i \in 0..(buffer.format.cols - 1), j \in 0..(buffer.format.rows - 1),
          p \in 0..(buffer.format.planes - 1) :
         /\ 0 <= i * buffer.cstride + j * buffer.rstride + p * buffer.pstride
         /\ i * buffer.cstride + j * buffer.rstride + p * buffer.pstride < byte_size(buffer)
         /\ pixel_address(buffer, i, j, p) - buffer.data
              = i * buffer.cstride + j * buffer.rstride + p * buffer.pstride

\* a buffer of several columns, rows and planes of multi-byte pixels
C14_Witness ==
  /\ buffer # ImageBuffer0
  /\ complete(buffer.format)
  /\ buffer.format.cols > 1
  /\ buffer.format.rows > 1
  /\ buffer.format.planes > 1
  /\ buffer.cstride > 1

\* C15: cropped(bbox) returns a buffer whose base is the parent's advanced by
\* cstride*bbox.min.x + rstride*bbox.min.y and whose cols and rows are bbox's
\* width and height; strides, planes, pixel format, channel type and the
\* unpremultiplied flag are the parent's, pixel (i, j, p) of the crop is at the
\* address of the parent's pixel (i + bbox.min.x, j + bbox.min.y, p), and the
\* parent is left as it was.
C15_CroppedZeroCopy ==
  [][(ret'.op = "cropped" /\ <<ret, cropped_buffer>>' # <<ret, cropped_buffer>>) =>
       LET bbox == ret'.value
           c == cropped_buffer'
       IN /\ buffer' = buffer
          /\ format' = format
          /\ c.data = buffer.data + buffer.cstride * bbox.min[1] + buffer.rstride * bbox.min[2]
          /\ c.format.cols = bbox.max[1] - bbox.min[1]
          /\ c.format.rows = bbox.max[2] - bbox.min[2]
          /\ c.cstride = buffer.cstride
          /\ c.rstride = buffer.rstride
          /\ c.pstride = buffer.pstride
          /\ c.format.planes = buffer.format.planes
          /\ c.format.pixel_format = buffer.format.pixel_format
          /\ c.format.channel_type = buffer.format.channel_type
          /\ c.unpremultiplied = buffer.unpremultiplied
          /\ \A i \in 0..(c.format.cols - 1), j \in 0..(c.format.rows - 1),
                p \in 0..(c.format.planes - 1) :
               pixel_address(c, i, j, p)
                 = pixel_address(buffer, i + bbox.min[1], j + bbox.min[2], p)]_vars

\* a crop that starts off both axes, of a buffer with several planes of
\* multi-byte pixels and the unpremultiplied flag set
C15_Witness ==
  /\ ret.op = "cropped"
  /\ ret.value.min[1] > 0
  /\ ret.value.min[2] > 0
  /\ cropped_buffer.data > buffer.data
  /\ buffer.cstride > 1
  /\ buffer.rstride > buffer.cstride
  /\ buffer.format.planes > 1
  /\ buffer.unpremultiplied

\* the optional calls of an image resource or view
OptionalOps ==
  {"block_read_size", "nodata_read", "block_write_size", "set_block_write_size",
   "set_nodata_write", "CorrelatorView::operator()"}

\* C17: every optional call made on a resource that has only the base-class
\* default for it, and per-pixel access to a CorrelatorView, throws NoImplErr
\* (the UnsupportedOperation of the design).
C17_UnsupportedThrows ==
  ret.op \in OptionalOps => ret.exc = "NoImplErr"

(***************************************************************************)
(* Properties of levenberg_marquardt (SpecLM).                             *)
(***************************************************************************)
\* C16: the inner loop of an outer iteration makes at most 6 trial steps, and
\* a call whose last outer iteration used up that budget without a trial step
\* being accepted tells its caller that it did not converge.
C16_BoundedAndReported ==
  /\ lm.iterations <= MaxInner + 1
  /\ ( /\ lm.pc = "returned"
       /\ lm.shortCircuit
       /\ lm.cost[lm.ptry] > lm.norm_start ) => lm.result = "ConvergenceFailure"

\* C18: lambda is multiplied by 10 by every trial step whose norm_try is
\* greater than norm_start and by no other, and it is divided by 10 at the end
\* of an outer iteration whose last trial step was accepted and at no other
\* point.  (lambda is a power of ten here, so it is positive.)
C18_LambdaPolicy ==
  [][ /\ (lm.pc = "inner" /\ lm'.pc = "inner") =>
           (lm'.lambda = IF lm.cost[lm'.ptry] > lm.norm_start
                           THEN lm.lambda + 1 ELSE lm.lambda)
      /\ lm'.lambda > lm.lambda => (lm.pc = "inner" /\ lm'.pc = "inner")
      /\ (lm.pc = "inner" /\ lm'.pc = "outer" /\ lm.cost[lm.ptry] <= lm.norm_start) =>
           lm'.lambda = lm.lambda - 1
      /\ lm'.lambda < lm.lambda =>
           (lm.pc = "inner" /\ lm'.pc = "outer" /\ lm.cost[lm.ptry] <= lm.norm_start) ]_vars

\* C19: an outer iteration is the last one iff, with norm_start and norm_try as
\* they are after its inner loop, (norm_start - norm_try)/norm_start < REL_TOL
\* or norm_try < ABS_TOL; the function returns only when converged is set; and
\* when the initial residual norm is below ABS_TOL no outer iteration runs and
\* p is returned as it was passed.
C19_DualStopping ==
  [][ /\ (lm.pc = "inner" /\ lm'.pc = "outer") =>
           (lm'.converged <=>
              \/ 1000 * (lm.norm_start - lm.norm_try) < lm.norm_start
              \/ lm.norm_try < 1)
      /\ (lm.pc = "outer" /\ lm'.pc = "inner") => ~lm.converged
      /\ (lm.pc = "outer" /\ lm'.pc = "returned") => lm.converged
      /\ (lm.pc = "called" /\ lm'.pc = "outer") =>
           (lm'.converged <=> lm.cost[lm.guess] < 1)
      /\ (lm'.pc = "returned" /\ lm.cost[lm.guess] < 1) =>
           (lm'.outer_iter = 0 /\ lm'.p = lm.guess) ]_vars

\* a call has returned after more than one outer iteration, the last of which
\* brought the residual below ABS_TOL with a large relative improvement
C19_Witness ==
  /\ lm.pc = "returned"
  /\ lm.outer_iter > 1
  /\ ~lm.shortCircuit
  /\ lm.cost[lm.p] < ABS_TOL
  /\ lm.cost[lm.guess] > 1000

\* C20: at the end of an outer iteration the last trial vector becomes p if
\* its norm_try was not greater than norm_start, and p is left as it was only
\* if that norm_try was greater than norm_start.
C20_AcceptedStepTaken ==
  [][(lm.pc = "inner" /\ lm'.pc = "outer") =>
       /\ lm.cost[lm.ptry] <= lm.norm_start => lm'.p = lm.ptry
       /\ lm.cost[lm.ptry] > lm.norm_start => lm'.p = lm.p]_vars

(***************************************************************************)
(* Properties of the tile geometry (SpecTiles).                            *)
(***************************************************************************)
\* C21: for every pixel x of bbox whose returned disparity D is not missing,
\* with t the left-tile index of x: the right-tile index of right-image pixel
\* x + D is t + d for an offset d of the origin-based window
\* [0, search_range.width] x [0, search_range.height], the right tile there
\* holds the right image's pixel x + D and equals the left tile at t, which
\* holds the left image's pixel x; and D lies between search_range.min and
\* search_range.max.
C21_CoordinatesConsistent ==
  \A th \in Threads :
    LET c == call[th]
        sr == view.search_range
    IN c.pc = "done" =>
         \A x \in BoxPixels(c.bbox) :
           ~c.dest[x].missing =>
             LET D == <<c.dest[x].h, c.dest[x].v>>
                 t == VSub(x, c.left_crop_bbox.min)
                 rt == VSub(VAdd(x, D), c.right_crop_bbox.min)
                 d == VSub(rt, t)
             IN /\ d[1] \in 0..width(sr)
                /\ d[2] \in 0..height(sr)
                /\ D = VAdd(d, sr.min)
                /\ t \in DOMAIN c.cropped_left_image.pix
                /\ rt \in DOMAIN c.cropped_right_image.pix
                /\ c.cropped_right_image.pix[rt] = c.cropped_left_image.pix[t]
                /\ c.cropped_left_image.pix[t] = ZeroEdgeExtension(left_image, x[1], x[2])
                /\ c.cropped_right_image.pix[rt] =
                     ZeroEdgeExtension(right_image, x[1] + D[1], x[2] + D[2])
                /\ sr.min[1] <= D[1] /\ D[1] <= sr.max[1]
                /\ sr.min[2] <= D[2] /\ D[2] <= sr.max[2]

\* a returned tile that does not start at the origin holds a disparity that
\* points to the left, found under a search range whose minimum is not the
\* origin, next to a pixel whose disparity is missing
C21_Witness ==
  \E th \in Threads :
    /\ call[th].pc = "done"
    /\ call[th].bbox.min[1] > 0
    /\ view.search_range.min[1] < 0
    /\ \E x, y \in BoxPixels(call[th].bbox) :
         ~call[th].dest[x].missing /\ call[th].dest[x].h < 0 /\ call[th].dest[y].missing

\* C22: in a call with a non-empty bbox, under a kernel size that is not
\* negative on either axis and a search range of non-negative width and height,
\* every index (kernel_size.x + (x - bbox.min.x), kernel_size.y + (y - bbox.min.y))
\* at which the returned crop reads the disparity map, (x, y) a pixel of bbox,
\* lies inside the padded tile, and the disparity map has the padded tile's
\* size.
C22_ReadsInsideMap ==
  \A th \in Threads :
    LET c == call[th]
        ks == view.kernel_size
        sr == view.search_range
        cb == result_crop_bbox(c.bbox, ks)
    IN ( /\ c.pc \in AfterPad
         /\ ~empty(c.bbox)
         /\ ks[1] >= 0 /\ ks[2] >= 0
         /\ width(sr) >= 0 /\ height(sr) >= 0 ) =>
         /\ \A q \in BoxPixels(c.bbox) :
              /\ crop_index(cb, q[1], q[2]) =
                   <<ks[1] + (q[1] - c.bbox.min[1]), ks[2] + (q[2] - c.bbox.min[2])>>
              /\ crop_index(cb, q[1], q[2]) \in
                   Grid(width(c.left_crop_bbox), height(c.left_crop_bbox))
         /\ c.pc \in {"adjust", "return", "done"} =>
              /\ c.disparity_map.cols = width(c.bbox) + width(sr) + 2 * ks[1]
              /\ c.disparity_map.rows = height(c.bbox) + height(sr) + 2 * ks[2]
              /\ DOMAIN c.disparity_map.pix =
                   Grid(width(c.left_crop_bbox), height(c.left_crop_bbox))
              /\ Outside(c.disparity_map, cb, c.bbox) = {}

\* a tile of several pixels that does not start at the origin has been read
\* out of a disparity map computed under a search range of height 0
C22_Witness ==
  \E th \in Threads :
    /\ call[th].pc = "done"
    /\ call[th].bbox.min[1] > 0
    /\ width(call[th].bbox) > 1
    /\ height(view.search_range) = 0
    /\ call[th].disparity_map.rows = height(call[th].bbox) + 2 * view.kernel_size[2]

(***************************************************************************)
(* Further properties of levenberg_marquardt (SpecLM).                     *)
(***************************************************************************)
\* C23: no step of the call takes p to a parameter vector of greater squared
\* residual norm: p is assigned only at the end of an outer iteration, its
\* residual norm after the iteration is at most its residual norm before, the
\* residual norm of p is at all times at most that of the initial guess, and
\* the observation vector z is never changed.
C23_ResidualNeverIncreases ==
  [][ /\ lm.cost[lm'.p] <= lm.cost[lm.p]
      /\ lm'.p # lm.p => (lm.pc = "inner" /\ lm'.pc = "outer")
      /\ (lm.pc = "inner" /\ lm'.pc = "outer") => lm'.norm_start <= lm.norm_start
      /\ lm'.cost[lm'.p] <= lm'.cost[lm'.guess]
      /\ lm'.z = lm.z
      /\ lm'.cost = lm.cost
      /\ lm'.guess = lm.guess ]_vars

\* a call has returned a p better than the initial guess after an outer
\* iteration that was short-circuited with its last trial step rejected
C23_Witness ==
  /\ lm.pc = "returned"
  /\ lm.outer_iter > 1
  /\ lm.shortCircuit
  /\ lm.cost[lm.p] < lm.cost[lm.guess]
  /\ lm.cost[lm.ptry] > lm.cost[lm.p]

====
